---- MODULE Spec2Model ----
(***************************************************************************)
(* Mini ATM System: the in-memory Store (app/store.py) with its lazily     *)
(* created per-account locks and audit log, and the idempotency cache      *)
(* that wraps the mutating endpoints (app/main.py).                        *)
(*                                                                         *)
(* Money is counted in thousandths of a currency unit, so that an input of *)
(* more than two fraction digits exists and _money really rounds: a value  *)
(* with two fraction digits is a multiple of 10.                           *)
(*                                                                         *)
(* The endpoints are plain "def" handlers, which the framework runs on a   *)
(* pool of threads: a call is a sequence of steps of one thread, and the   *)
(* steps of different threads interleave wherever the interpreter may      *)
(* switch threads (between two accesses of shared objects).                *)
(***************************************************************************)
EXTENDS Integers, Sequences, FiniteSets, TLC

\* ------------------------------------------------------------- bounds
NumThreads == 2
\* Calls of a run of the endpoints.
MaxCalls == 2
MaxTicks == 1
\* Calls of a run of direct Store calls.
MaxStoreCalls == 3
\* Calls of a run of retries of one request.
MaxRetryCalls == 3

Threads == 1..NumThreads

\* -------------------------------------------------- program constants
\* IDEMP_TTL = 10 * 60 seconds
IDEMP_TTL == 600
\* _TWO_DP = Decimal("0.01"), in thousandths
_TWO_DP == 10

\* ------------------------------------------------------------- inputs
\* Account numbers a caller passes: two seeded accounts and an unknown one.
IdInputs == {"1001", "9999", "nope"}
\* Amounts a direct caller of the Store passes (thousandths):
\* -0.005, 0, 0.004, 0.005, 500.00
AmountInputs == {-5, 0, 4, 5, 500000}
\* Amounts a request body carries: 0, 0.004, 500.00
BodyInputs == {0, 4, 500000}
\* Idempotency-Key header values; "" is the absent header.
KeyInputs == {"", "k1"}
\* The clock advances by a whole TTL, or by a second more.
TickInputs == {IDEMP_TTL, IDEMP_TTL + 1}

\* ------------------------------------------------------------ helpers
\* Decimal.quantize(_TWO_DP, rounding=ROUND_HALF_UP): to the nearest multiple
\* of 0.01, a tie going away from zero.
_money(v) ==
  LET a == IF v >= 0 THEN v ELSE -v
      q == ((2 * a + _TWO_DP) \div (2 * _TWO_DP)) * _TWO_DP
  IN  IF v >= 0 THEN q ELSE -q

\* Store.seed: the accounts and their balances.
seed == ("1001" :> _money(500000)) @@ ("1002" :> _money(1250750)) @@ ("9999" :> _money(0))

\* A lock object is named by the account and the thread that created it;
\* NoLock is Python's None.
NoLock == <<"", 0>>
\* No result: the call raised, or has not returned yet.
NoResult == [account_number |-> "", balance |-> 0, transactions |-> <<>>]
\* An absent entry of a history variable.
NoCall == [cid |-> 0, now |-> 0, ok |-> FALSE, payload |-> NoResult]
\* No call before the current one.
NoPrev == [op |-> "none", acct |-> "", arg |-> 0, err |-> "none"]

VARIABLES
  accounts,     \* Store._accounts: account number -> balance
  locks,        \* Store._locks: account number -> lock object
  held,         \* the lock objects that are locked
  log,          \* Store._log: account number -> sequence of Txn
  idemp_cache,  \* main.idemp_cache: key -> (timestamp, response)
  clock,        \* time(), in seconds
  ticks,        \* how often the clock advanced
  calls,        \* how many calls were started
  pc,           \* per thread: where its call stands
  op,           \* per thread: "deposit", "withdraw", "get_balance", "transactions"
  api,          \* per thread: TRUE for an endpoint call, FALSE for a direct Store call
  acct,         \* per thread: account_number
  arg,          \* per thread: the amount the caller passed (body.amount)
  amount,       \* per thread: deposit's / withdraw's amount = _money(amount)
  key,          \* per thread: idempotency_key
  now,          \* per thread: idempotent_response's now
  expired,      \* per thread: the keys the sweep found expired and has yet to pop
  lock,         \* per thread: _get_lock's / deposit's local lock
  tmp,          \* per thread: the value of acc.balance it loaded
  ret,          \* per thread: the value returned
  err,          \* per thread: the error raised, "none" if none
  invoked,      \* per thread: whether the call ran the Store operation
  applied,      \* history: key -> number of balance writes made under that key
  lastCall,     \* history (serial runs): key -> the last call that ran the operation
  pre           \* history (serial runs): accounts and log when the current call
                \* began; the call before it, and the accounts when that one began

store == <<accounts, locks, held, log>>
locals == <<pc, op, api, acct, arg, amount, key, now, expired, lock, tmp, ret, err, invoked>>
hist == <<applied, lastCall, pre>>
vars == <<accounts, locks, held, log, idemp_cache, clock, ticks, calls,
          pc, op, api, acct, arg, amount, key, now, expired, lock, tmp, ret, err,
          invoked, applied, lastCall, pre>>

Tokens == KeyInputs \ {""}

Init ==
  /\ accounts = seed
  /\ locks = [i \in {} |-> NoLock]
  /\ held = {}
  /\ log = [i \in DOMAIN seed |-> <<>>]
  /\ idemp_cache = [k \in {} |-> [t |-> 0, response |-> NoResult]]
  /\ clock = 0
  /\ ticks = 0
  /\ calls = 0
  /\ pc = [t \in Threads |-> "idle"]
  /\ op = [t \in Threads |-> "none"]
  /\ api = [t \in Threads |-> TRUE]
  /\ acct = [t \in Threads |-> ""]
  /\ arg = [t \in Threads |-> 0]
  /\ amount = [t \in Threads |-> 0]
  /\ key = [t \in Threads |-> ""]
  /\ now = [t \in Threads |-> 0]
  /\ expired = [t \in Threads |-> {}]
  /\ lock = [t \in Threads |-> NoLock]
  /\ tmp = [t \in Threads |-> 0]
  /\ ret = [t \in Threads |-> NoResult]
  /\ err = [t \in Threads |-> "none"]
  /\ invoked = [t \in Threads |-> FALSE]
  /\ applied = [k \in Tokens |-> 0]
  /\ lastCall = [k \in Tokens |-> NoCall]
  /\ pre = [accounts |-> seed, log |-> [i \in DOMAIN seed |-> <<>>],
            prev |-> NoPrev, before |-> seed]

\* A thread between two calls.
AtRest(t) == pc[t] \in {"idle", "done"}

\* The locals of a call that begins; each specification bounds the calls of
\* its runs where it starts them.
Begin(t, o, a, i, x, k) ==
  /\ AtRest(t)
  /\ calls' = calls + 1
  /\ op' = [op EXCEPT ![t] = o]
  /\ api' = [api EXCEPT ![t] = a]
  /\ acct' = [acct EXCEPT ![t] = i]
  /\ arg' = [arg EXCEPT ![t] = x]
  /\ amount' = [amount EXCEPT ![t] = 0]
  /\ key' = [key EXCEPT ![t] = k]
  /\ now' = [now EXCEPT ![t] = IF a /\ o \in {"deposit", "withdraw"} THEN clock ELSE 0]
  /\ UNCHANGED <<expired, lock, tmp>>

\* Mutant: an error is swallowed, the call ends as if it had succeeded.
FinishSilent(t, r, e) ==
  /\ pc' = [pc EXCEPT ![t] = "done"]
  /\ ret' = [ret EXCEPT ![t] = r]
  /\ err' = [err EXCEPT ![t] = "none"]

\* A call that ends: with a result, or with an error.
Finish(t, r, e) ==
  /\ pc' = [pc EXCEPT ![t] = "done"]
  /\ ret' = [ret EXCEPT ![t] = r]
  /\ err' = [err EXCEPT ![t] = e]

Goto(t, p) == pc' = [pc EXCEPT ![t] = p]

\* Mutant: one lock serves every account.
GetAny(d, i) == IF DOMAIN d # {} THEN d[CHOOSE j \in DOMAIN d : TRUE] ELSE NoLock

\* dict.get(key): the value, or None.
Get(d, i) == IF i \in DOMAIN d THEN d[i] ELSE NoLock

\* The response of the deposit and withdraw endpoints.
Response(i, b) == [account_number |-> i, balance |-> b, transactions |-> <<>>]

\* ---------------------------------------------------------- endpoints
\* POST /accounts/{account_number}/deposit and .../withdraw. The body is a
\* MoneyChange, whose validator refuses an amount <= 0 before the handler
\* runs; the handler calls idempotent_response, which first reads the time.
StartApi(t, o, i, x, k) ==
  /\ Begin(t, o, TRUE, i, x, k)
  /\ invoked' = [invoked EXCEPT ![t] = FALSE]
  /\ IF x <= 0
       THEN Finish(t, NoResult, "Validation")
       ELSE /\ Goto(t, "sweep")
            /\ ret' = [ret EXCEPT ![t] = NoResult]
            /\ err' = [err EXCEPT ![t] = "none"]
  /\ UNCHANGED <<store, idemp_cache, clock, ticks>>

\* Mutant: an entry expires already at the TTL.
ExpiredAtTtl(n, t0) == n - t0 >= IDEMP_TTL

\* if now - t > IDEMP_TTL
Expired(n, t0) == n - t0 > IDEMP_TTL

\* idempotent_response, the sweep: list(idemp_cache.items()) is one snapshot;
\* the entries found expired in it are popped one by one afterwards.
Sweep(t) ==
  /\ pc[t] = "sweep"
  /\ LET old == {k \in DOMAIN idemp_cache : Expired(now[t], idemp_cache[k].t)}
     IN  /\ expired' = [expired EXCEPT ![t] = old]
         /\ Goto(t, IF old = {} THEN "check" ELSE "pop")
  /\ UNCHANGED <<store, idemp_cache, clock, ticks, calls, op, api, acct, arg, amount,
                 key, now, lock, tmp, ret, err, invoked>>

\* idemp_cache.pop(k, None): removes whatever is stored under k by now.
Pop(t) ==
  /\ pc[t] = "pop"
  /\ \E k \in expired[t] :
       /\ idemp_cache' = [j \in DOMAIN idemp_cache \ {k} |-> idemp_cache[j]]
       /\ expired' = [expired EXCEPT ![t] = @ \ {k}]
       /\ Goto(t, IF expired[t] = {k} THEN "check" ELSE "pop")
  /\ UNCHANGED <<store, clock, ticks, calls, op, api, acct, arg, amount, key, now,
                 lock, tmp, ret, err, invoked>>

\* Mutant: an entry counts only for the account it was stored for.
CheckSameAccount(t) ==
  /\ pc[t] = "check"
  /\ IF /\ key[t] # "" /\ key[t] \in DOMAIN idemp_cache
        /\ idemp_cache[key[t]].response.account_number = acct[t]
       THEN Goto(t, "hit") /\ UNCHANGED invoked
       ELSE Goto(t, "getlock") /\ invoked' = [invoked EXCEPT ![t] = TRUE]
  /\ UNCHANGED <<store, idemp_cache, clock, ticks, calls, op, api, acct, arg, amount,
                 key, now, expired, lock, tmp, ret, err>>

\* if not key: return compute()
\* if key in idemp_cache: ... (the entry is read in the next step)
\* result = compute()
Check(t) ==
  /\ pc[t] = "check"
  /\ IF key[t] # "" /\ key[t] \in DOMAIN idemp_cache
       THEN Goto(t, "hit") /\ UNCHANGED invoked
       ELSE Goto(t, "getlock") /\ invoked' = [invoked EXCEPT ![t] = TRUE]
  /\ UNCHANGED <<store, idemp_cache, clock, ticks, calls, op, api, acct, arg, amount,
                 key, now, expired, lock, tmp, ret, err>>

\* return idemp_cache[key][1]; a KeyError here reaches the endpoint's
\* "except KeyError", which answers 404 account not found.
Hit(t) ==
  /\ pc[t] = "hit"
  /\ IF key[t] \in DOMAIN idemp_cache
       THEN Finish(t, idemp_cache[key[t]].response, "none")
       ELSE Finish(t, NoResult, "NotFound")
  /\ UNCHANGED <<store, idemp_cache, clock, ticks, calls, op, api, acct, arg, amount,
                 key, now, expired, lock, tmp, invoked>>

\* idemp_cache[key] = (now, result); return result
CacheStore(t) ==
  /\ pc[t] = "store"
  /\ idemp_cache' = [j \in DOMAIN idemp_cache \cup {key[t]} |->
                       IF j = key[t] THEN [t |-> now[t], response |-> ret[t]]
                                     ELSE idemp_cache[j]]
  /\ Goto(t, "done")
  /\ UNCHANGED <<store, clock, ticks, calls, op, api, acct, arg, amount, key, now,
                 expired, lock, tmp, ret, err, invoked>>

\* -------------------------------------------------------------- Store
\* A direct call of Store.deposit or Store.withdraw: no validation of the
\* amount, no idempotency cache.
StoreCall(t, o, i, x) ==
  /\ Begin(t, o, FALSE, i, x, "")
  /\ invoked' = [invoked EXCEPT ![t] = TRUE]
  /\ Goto(t, "getlock")
  /\ ret' = [ret EXCEPT ![t] = NoResult]
  /\ err' = [err EXCEPT ![t] = "none"]
  /\ UNCHANGED <<store, idemp_cache, clock, ticks>>

\* amount = _money(amount); _get_lock: lock = self._locks.get(account_number)
GetLock(t) ==
  /\ pc[t] = "getlock"
  /\ amount' = [amount EXCEPT ![t] = _money(arg[t])]
  /\ lock' = [lock EXCEPT ![t] = Get(locks, acct[t])]
  /\ Goto(t, IF Get(locks, acct[t]) = NoLock THEN "newlock" ELSE "acquire")
  /\ UNCHANGED <<store, idemp_cache, clock, ticks, calls, op, api, acct, arg, key, now,
                 expired, tmp, ret, err, invoked>>

\* _get_lock: if lock is None: lock = Lock(); self._locks[account_number] = lock
NewLock(t) ==
  /\ pc[t] = "newlock"
  /\ lock' = [lock EXCEPT ![t] = <<acct[t], t>>]
  /\ locks' = [j \in DOMAIN locks \cup {acct[t]} |->
                 IF j = acct[t] THEN <<acct[t], t>> ELSE locks[j]]
  /\ Goto(t, "acquire")
  /\ UNCHANGED <<accounts, held, log, idemp_cache, clock, ticks, calls, op, api,
                 acct, arg, amount, key, now, expired, tmp, ret, err, invoked>>

\* with lock: (blocks while the lock object is locked)
Acquire(t) ==
  /\ pc[t] = "acquire"
  /\ lock[t] \notin held
  /\ held' = held \cup {lock[t]}
  /\ Goto(t, "enter")
  /\ UNCHANGED <<accounts, locks, log, idemp_cache, clock, ticks, calls, op, api,
                 acct, arg, amount, key, now, expired, lock, tmp, ret, err, invoked>>

\* Mutant: the error is cached under the key like a result.
RaiseCached(t, e) ==
  /\ Finish(t, NoResult, e)
  /\ held' = held \ {lock[t]}
  /\ lock' = [lock EXCEPT ![t] = NoLock]
  /\ idemp_cache' = IF key[t] = "" THEN idemp_cache
                    ELSE [j \in DOMAIN idemp_cache \cup {key[t]} |->
                            IF j = key[t] THEN [t |-> now[t], response |-> NoResult]
                                          ELSE idemp_cache[j]]

\* Mutant: an exception leaves the lock locked.
RaiseHolding(t, e) ==
  /\ Finish(t, NoResult, e)
  /\ UNCHANGED <<held, lock, idemp_cache>>

\* An exception of the Store operation leaves the with block (the lock is
\* released) and idempotent_response (result = compute() has no value, and the
\* assignment to idemp_cache[key] is not reached); the endpoint answers with
\* the error.
Raise(t, e) ==
  /\ Finish(t, NoResult, e)
  /\ held' = held \ {lock[t]}
  /\ lock' = [lock EXCEPT ![t] = NoLock]
  /\ UNCHANGED idemp_cache

\* Mutant: a withdrawal of the whole balance is refused.
InsufficientOrEqual(b, x) == b <= x

\* withdraw's test: acc.balance < amount
Insufficient(b, x) == b < x

\* acc = self._require(account_number), a KeyError leaving the with block;
\* then deposit loads acc.balance for its sum, and withdraw tests the balance
\* (raising ValueError, which leaves the with block too).
Enter(t) ==
  /\ pc[t] = "enter"
  /\ IF acct[t] \notin DOMAIN accounts
       THEN Raise(t, "NotFound") /\ UNCHANGED tmp
       ELSE IF op[t] = "deposit"
       THEN /\ tmp' = [tmp EXCEPT ![t] = accounts[acct[t]]]
            /\ Goto(t, "write")
            /\ UNCHANGED <<held, lock, ret, err, idemp_cache>>
       ELSE IF Insufficient(accounts[acct[t]], amount[t])
       THEN Raise(t, "InsufficientFunds") /\ UNCHANGED tmp
       ELSE /\ Goto(t, "load")
            /\ UNCHANGED <<held, lock, tmp, ret, err, idemp_cache>>
  /\ UNCHANGED <<accounts, locks, log, clock, ticks, calls, op, api,
                 acct, arg, amount, key, now, expired, invoked>>

\* withdraw: the load of acc.balance in acc.balance - amount
Load(t) ==
  /\ pc[t] = "load"
  /\ tmp' = [tmp EXCEPT ![t] = accounts[acct[t]]]
  /\ Goto(t, "write")
  /\ UNCHANGED <<store, idemp_cache, clock, ticks, calls, op, api, acct, arg, amount,
                 key, now, expired, lock, ret, err, invoked>>

\* The balance deposit and withdraw compute from the one they loaded.
NewBalance(o, b, x) == IF o = "deposit" THEN _money(b + x) ELSE _money(b - x)

\* acc.balance = _money(acc.balance + amount)  /  _money(acc.balance - amount)
Write(t) ==
  /\ pc[t] = "write"
  /\ accounts' = [accounts EXCEPT ![acct[t]] = NewBalance(op[t], tmp[t], amount[t])]
  /\ Goto(t, "append")
  /\ UNCHANGED <<locks, held, log, idemp_cache, clock, ticks, calls, op, api, acct, arg,
                 amount, key, now, expired, lock, tmp, ret, err, invoked>>

\* Mutant: the record carries the balance from before the transaction.
TxnBalanceBefore(ts, type, x, b) ==
  [ts |-> ts, type |-> type, amount |-> x,
   balance |-> IF type = "deposit" THEN b - x ELSE b + x]

\* The Txn that deposit and withdraw append.
Txn(ts, type, x, b) == [ts |-> ts, type |-> type, amount |-> x, balance |-> b]

\* Mutant: the record is inserted at the head of the log.
PrependTxn(t) ==
  /\ pc[t] = "append"
  /\ log' = [log EXCEPT ![acct[t]] =
               <<Txn(clock, op[t], amount[t], accounts[acct[t]])>> \o @]
  /\ Goto(t, "return")
  /\ UNCHANGED <<accounts, locks, held, idemp_cache, clock, ticks, calls, op, api,
                 acct, arg, amount, key, now, expired, lock, tmp, ret, err, invoked>>

\* self._log[account_number].append(Txn(ts=now, type=..., amount=amount,
\*                                      balance=acc.balance))
AppendTxn(t) ==
  /\ pc[t] = "append"
  /\ log' = [log EXCEPT ![acct[t]] =
               Append(@, Txn(clock, op[t], amount[t], accounts[acct[t]]))]
  /\ Goto(t, "return")
  /\ UNCHANGED <<accounts, locks, held, idemp_cache, clock, ticks, calls, op, api,
                 acct, arg, amount, key, now, expired, lock, tmp, ret, err, invoked>>

\* Mutant: the result is stored in the cache whether or not the call
\* carries a key.
ReturnStored(t) ==
  /\ pc[t] = "return"
  /\ held' = held \ {lock[t]}
  /\ lock' = [lock EXCEPT ![t] = NoLock]
  /\ tmp' = [tmp EXCEPT ![t] = 0]
  /\ ret' = [ret EXCEPT ![t] = Response(acct[t], accounts[acct[t]])]
  /\ Goto(t, IF api[t] THEN "store" ELSE "done")
  /\ UNCHANGED <<accounts, locks, log, idemp_cache, clock, ticks, calls, op, api,
                 acct, arg, amount, key, now, expired, err, invoked>>

\* return acc.balance, leaving the with block (the lock is released); the
\* endpoint's _do builds the response, which idempotent_response stores when
\* the call carries a key.
Return(t) ==
  /\ pc[t] = "return"
  /\ held' = held \ {lock[t]}
  /\ lock' = [lock EXCEPT ![t] = NoLock]
  /\ tmp' = [tmp EXCEPT ![t] = 0]
  /\ ret' = [ret EXCEPT ![t] = Response(acct[t], accounts[acct[t]])]
  /\ Goto(t, IF api[t] /\ key[t] # "" THEN "store" ELSE "done")
  /\ UNCHANGED <<accounts, locks, log, idemp_cache, clock, ticks, calls, op, api,
                 acct, arg, amount, key, now, expired, err, invoked>>

\* Store.get_balance (and GET .../balance): _money(acc.balance), or KeyError.
GetBalance(t, i) ==
  /\ Begin(t, "get_balance", TRUE, i, 0, "")
  /\ invoked' = [invoked EXCEPT ![t] = FALSE]
  /\ IF i \in DOMAIN accounts
       THEN Finish(t, Response(i, _money(accounts[i])), "none")
       ELSE Finish(t, NoResult, "NotFound")
  /\ UNCHANGED <<store, idemp_cache, clock, ticks>>

\* Store.transactions (and GET .../transactions): a copy of the log, or KeyError.
Transactions(t, i) ==
  /\ Begin(t, "transactions", TRUE, i, 0, "")
  /\ invoked' = [invoked EXCEPT ![t] = FALSE]
  /\ IF i \in DOMAIN accounts
       THEN Finish(t, [account_number |-> i, balance |-> 0, transactions |-> log[i]], "none")
       ELSE Finish(t, NoResult, "NotFound")
  /\ UNCHANGED <<store, idemp_cache, clock, ticks>>

\* time() moves on.
Tick ==
  /\ ticks < MaxTicks
  /\ \E d \in TickInputs : clock' = clock + d
  /\ ticks' = ticks + 1
  /\ UNCHANGED <<store, idemp_cache, calls, locals>>

\* The next step of the call thread t is in.
Step(t) ==
  \/ Sweep(t) \/ Pop(t) \/ Check(t) \/ Hit(t) \/ CacheStore(t)
  \/ GetLock(t) \/ NewLock(t) \/ Acquire(t) \/ Enter(t) \/ Load(t)
  \/ Write(t) \/ AppendTxn(t) \/ Return(t)

\* ----------------------------------------------------- specifications
\* History: a balance write made under a key is counted.
Count(t) ==
  applied' = IF pc[t] = "write" /\ key[t] # ""
               THEN [applied EXCEPT ![key[t]] = @ + 1]
               ELSE applied

\* History of concurrent runs: the count alone.
Conc(t) == Count(t) /\ UNCHANGED <<lastCall, pre>>

\* The service: requests to the endpoints, handled by concurrent threads.
Next ==
  \/ \E t \in Threads, o \in {"deposit", "withdraw"}, i \in IdInputs,
        x \in BodyInputs, k \in KeyInputs :
       calls < MaxCalls /\ StartApi(t, o, i, x, k) /\ Conc(t)
  \/ \E t \in Threads, i \in IdInputs : calls < MaxCalls /\ GetBalance(t, i) /\ Conc(t)
  \/ \E t \in Threads, i \in IdInputs : calls < MaxCalls /\ Transactions(t, i) /\ Conc(t)
  \/ \E t \in Threads : Sweep(t) /\ Conc(t)
  \/ \E t \in Threads : Pop(t) /\ Conc(t)
  \/ \E t \in Threads : Check(t) /\ Conc(t)
  \/ \E t \in Threads : Hit(t) /\ Conc(t)
  \/ \E t \in Threads : CacheStore(t) /\ Conc(t)
  \/ \E t \in Threads : GetLock(t) /\ Conc(t)
  \/ \E t \in Threads : NewLock(t) /\ Conc(t)
  \/ \E t \in Threads : Acquire(t) /\ Conc(t)
  \/ \E t \in Threads : Enter(t) /\ Conc(t)
  \/ \E t \in Threads : Load(t) /\ Conc(t)
  \/ \E t \in Threads : Write(t) /\ Conc(t)
  \/ \E t \in Threads : AppendTxn(t) /\ Conc(t)
  \/ \E t \in Threads : Return(t) /\ Conc(t)
  \/ Tick /\ UNCHANGED hist

Spec == Init /\ [][Next]_vars

\* The one caller of a serial run.
Caller == 1

\* History of a serial run: the state the current call began in, the call
\* before it with the accounts that one began with, and per key the last call
\* that ran the operation (recorded when that call ends).
Serial ==
  /\ Count(Caller)
  /\ pre' = IF AtRest(Caller)
              THEN [accounts |-> accounts, log |-> log,
                    prev |-> [op |-> op[Caller], acct |-> acct[Caller],
                              arg |-> arg[Caller], err |-> err[Caller]],
                    before |-> pre.accounts]
              ELSE pre
  /\ lastCall' = IF pc'[Caller] = "done" /\ invoked'[Caller] /\ key'[Caller] # ""
                   THEN [lastCall EXCEPT ![key'[Caller]] =
                           [cid |-> calls', now |-> now'[Caller],
                            ok |-> err'[Caller] = "none", payload |-> ret'[Caller]]]
                   ELSE lastCall

\* Requests to the endpoints, one after the other.
SeqNext ==
  \/ \E o \in {"deposit", "withdraw"}, i \in IdInputs, x \in BodyInputs,
        k \in KeyInputs : calls < MaxCalls /\ StartApi(Caller, o, i, x, k) /\ Serial
  \/ \E i \in IdInputs : calls < MaxCalls /\ GetBalance(Caller, i) /\ Serial
  \/ \E i \in IdInputs : calls < MaxCalls /\ Transactions(Caller, i) /\ Serial
  \/ Sweep(Caller) /\ Serial
  \/ Pop(Caller) /\ Serial
  \/ Check(Caller) /\ Serial
  \/ Hit(Caller) /\ Serial
  \/ CacheStore(Caller) /\ Serial
  \/ GetLock(Caller) /\ Serial
  \/ NewLock(Caller) /\ Serial
  \/ Acquire(Caller) /\ Serial
  \/ Enter(Caller) /\ Serial
  \/ Load(Caller) /\ Serial
  \/ Write(Caller) /\ Serial
  \/ AppendTxn(Caller) /\ Serial
  \/ Return(Caller) /\ Serial
  \/ Tick /\ UNCHANGED hist

SeqSpec == Init /\ [][SeqNext]_vars

\* Direct calls of the Store's methods, one after the other.
StoreNext ==
  \/ \E o \in {"deposit", "withdraw"}, i \in IdInputs, x \in AmountInputs :
       calls < MaxStoreCalls /\ StoreCall(Caller, o, i, x) /\ Serial
  \/ \E i \in IdInputs : calls < MaxStoreCalls /\ GetBalance(Caller, i) /\ Serial
  \/ \E i \in IdInputs : calls < MaxStoreCalls /\ Transactions(Caller, i) /\ Serial
  \/ GetLock(Caller) /\ Serial
  \/ NewLock(Caller) /\ Serial
  \/ Acquire(Caller) /\ Serial
  \/ Enter(Caller) /\ Serial
  \/ Load(Caller) /\ Serial
  \/ Write(Caller) /\ Serial
  \/ AppendTxn(Caller) /\ Serial
  \/ Return(Caller) /\ Serial

StoreSpec == Init /\ [][StoreNext]_vars

\* A client that sends one request, a deposit under a key, again and again,
\* without waiting for the answers: the calls are handled by concurrent threads.
RetryNext ==
  \/ \E t \in Threads, k \in Tokens :
       calls < MaxRetryCalls /\ StartApi(t, "deposit", "1001", 500000, k) /\ Conc(t)
  \/ \E t \in Threads : Sweep(t) /\ Conc(t)
  \/ \E t \in Threads : Pop(t) /\ Conc(t)
  \/ \E t \in Threads : Check(t) /\ Conc(t)
  \/ \E t \in Threads : Hit(t) /\ Conc(t)
  \/ \E t \in Threads : CacheStore(t) /\ Conc(t)
  \/ \E t \in Threads : GetLock(t) /\ Conc(t)
  \/ \E t \in Threads : NewLock(t) /\ Conc(t)
  \/ \E t \in Threads : Acquire(t) /\ Conc(t)
  \/ \E t \in Threads : Enter(t) /\ Conc(t)
  \/ \E t \in Threads : Write(t) /\ Conc(t)
  \/ \E t \in Threads : AppendTxn(t) /\ Conc(t)
  \/ \E t \in Threads : Return(t) /\ Conc(t)
  \/ Tick /\ UNCHANGED hist

RetrySpec == Init /\ [][RetryNext]_vars

\* Concurrent callers of the Store's methods.
LedgerNext ==
  \/ \E t \in Threads, o \in {"deposit", "withdraw"}, i \in IdInputs,
        x \in AmountInputs : calls < MaxCalls /\ StoreCall(t, o, i, x) /\ Conc(t)
  \/ \E t \in Threads, i \in IdInputs : calls < MaxCalls /\ GetBalance(t, i) /\ Conc(t)
  \/ \E t \in Threads, i \in IdInputs : calls < MaxCalls /\ Transactions(t, i) /\ Conc(t)
  \/ \E t \in Threads : GetLock(t) /\ Conc(t)
  \/ \E t \in Threads : NewLock(t) /\ Conc(t)
  \/ \E t \in Threads : Acquire(t) /\ Conc(t)
  \/ \E t \in Threads : Enter(t) /\ Conc(t)
  \/ \E t \in Threads : Load(t) /\ Conc(t)
  \/ \E t \in Threads : Write(t) /\ Conc(t)
  \/ \E t \in Threads : AppendTxn(t) /\ Conc(t)
  \/ \E t \in Threads : Return(t) /\ Conc(t)

LedgerSpec == Init /\ [][LedgerNext]_vars

\* The callers' threads are scheduled fairly: a call whose next step stays
\* possible takes it. (A Lock promises no order among its waiters, so nothing
\* stronger is assumed of Acquire.)
FairLedgerSpec == LedgerSpec /\ \A t \in Threads : WF_vars(Step(t) /\ Conc(t))

\* --------------------------------------------------------------- claims
Mutating == {"deposit", "withdraw"}

\* The sum of the amounts of a log, deposits counted positive and
\* withdrawals negative.
RECURSIVE NetAmount(_)
NetAmount(s) ==
  IF s = <<>> THEN 0
  ELSE (IF s[Len(s)].type = "deposit" THEN s[Len(s)].amount ELSE -s[Len(s)].amount)
       + NetAmount(SubSeq(s, 1, Len(s) - 1))

\* Each record's balance is the one before it (the seeded balance for the
\* first) plus or minus the record's own amount.
Chained(a) ==
  \A n \in 1..Len(log[a]) :
    LET before == IF n = 1 THEN seed[a] ELSE log[a][n - 1].balance
        r == log[a][n]
    IN  r.balance = IF r.type = "deposit" THEN before + r.amount ELSE before - r.amount

\* C1: with positive amounts only (the endpoints refuse the others), every
\* account's balance is >= 0 in every reachable state, whatever the
\* interleaving of the concurrent deposits and withdrawals.
C1_BalanceNonNegative == \A a \in DOMAIN accounts : accounts[a] >= 0

\* C2: deposits and withdrawals of one account are serialized: once all calls
\* have returned, the balance is the seeded balance plus the successful
\* deposits minus the successful withdrawals, and every log record's balance
\* continues the record before it.
C2_Serialized ==
  (\A t \in Threads : AtRest(t)) =>
    \A a \in DOMAIN accounts :
      /\ accounts[a] = seed[a] + NetAmount(log[a])
      /\ Chained(a)

\* The call of the serial caller reached idempotent_response (its body passed
\* validation) with key k, after an earlier call c ran the operation under k.
Retry(k, c) ==
  /\ pc[Caller] # "idle"
  /\ op[Caller] \in Mutating
  /\ err[Caller] # "Validation"
  /\ key[Caller] = k
  /\ 0 < c.cid
  /\ c.cid < calls

\* C3: in a serial run, a call that repeats a key no more than IDEMP_TTL
\* seconds after a successful call stored its result under that key does not
\* run the operation; it returns the payload of that call and leaves every
\* balance and every log as they were when it began.
C3_RetryWithinTtl ==
  \A k \in Tokens :
    LET c == lastCall[k]
    IN  (Retry(k, c) /\ c.ok /\ now[Caller] - c.now <= IDEMP_TTL) =>
          /\ ~invoked[Caller]
          /\ accounts = pre.accounts
          /\ log = pre.log
          /\ pc[Caller] = "done" => (err[Caller] = "none" /\ ret[Caller] = c.payload)

\* C3 witness: a retry exactly IDEMP_TTL seconds after the first call has
\* returned that call's payload, of a deposit that was applied once.
C3_Witness ==
  LET c == lastCall["k1"]
  IN  /\ Retry("k1", c) /\ c.ok
      /\ now[Caller] - c.now = IDEMP_TTL
      /\ pc[Caller] = "done"
      /\ ret[Caller] = c.payload
      /\ c.payload.balance = seed["1001"] + 500000
      /\ accounts["1001"] = seed["1001"] + 500000
      /\ Len(log["1001"]) = 1

\* C4: while no entry can have expired, at most one balance write is made
\* under one key, whatever the interleaving of the callers that share it.
C4_OncePerToken == \A k \in Tokens : clock <= IDEMP_TTL => applied[k] <= 1

\* C5: in every reachable state, the balance of the last record of a
\* non-empty log is the account's balance as get_balance returns it.
C5_LogMatchesBalance ==
  \A a \in DOMAIN accounts :
    log[a] # <<>> => log[a][Len(log[a])].balance = _money(accounts[a])

\* C6: two callers that have obtained a lock for the same account from
\* _get_lock have obtained the same lock object.
C6_OneLockPerAccount ==
  \A t, u \in Threads :
    (/\ pc[t] \in {"acquire", "enter", "load", "write", "append", "return"}
     /\ pc[u] \in {"acquire", "enter", "load", "write", "append", "return"}
     /\ acct[t] = acct[u]) => lock[t] = lock[u]

\* The serial caller's direct Store call has returned or raised.
Returned(o) == pc[Caller] = "done" /\ ~api[Caller] /\ op[Caller] = o

\* C7: a withdrawal from a known account raises insufficient funds exactly
\* when the balance it found is less than the amount rounded to two digits;
\* then balances and logs are as before the call; a withdrawal of the whole
\* balance succeeds and leaves 0.00.
C7_InsufficientFunds ==
  (Returned("withdraw") /\ acct[Caller] \in DOMAIN accounts) =>
    LET b == pre.accounts[acct[Caller]]
        x == _money(arg[Caller])
    IN  /\ err[Caller] = "InsufficientFunds" <=> b < x
        /\ err[Caller] = "InsufficientFunds" => (accounts = pre.accounts /\ log = pre.log)
        /\ b = x => (err[Caller] = "none" /\ accounts[acct[Caller]] = 0)

\* C7 witness: after the whole balance was withdrawn, a second withdrawal is
\* refused and changes nothing.
C7_Witness ==
  /\ Returned("withdraw")
  /\ acct[Caller] = "1001"
  /\ err[Caller] = "InsufficientFunds"
  /\ pre.accounts["1001"] = 0
  /\ accounts["1001"] = 0
  /\ Len(log["1001"]) = 1

\* C8: Store.deposit and Store.withdraw themselves refuse an amount <= 0
\* (here: for a known account) with an invalid-amount error, before any
\* mutation: balances and logs stay as they were.
C8_StoreRejectsNonPositive ==
  (/\ ~api[Caller] /\ op[Caller] \in Mutating /\ pc[Caller] # "idle"
   /\ acct[Caller] \in DOMAIN accounts /\ arg[Caller] <= 0) =>
    /\ accounts = pre.accounts
    /\ log = pre.log
    /\ pc[Caller] = "done" => err[Caller] = "InvalidAmount"

\* C9: a call never returns a cached entry that is older than IDEMP_TTL at
\* the call's time: a caller that found its key in the cache and is about to
\* return the entry finds it no older than that.
C9_NoExpiredHit ==
  \A t \in Threads :
    (pc[t] = "hit" /\ key[t] \in DOMAIN idemp_cache) =>
      now[t] - idemp_cache[key[t]].t <= IDEMP_TTL

\* C10: in a serial run, a call whose operation failed leaves no entry under
\* its key, and the next call with that key runs the operation again.
C10_FailuresNotCached ==
  \A k \in Tokens :
    LET c == lastCall[k]
    IN  (0 < c.cid /\ ~c.ok) =>
          /\ k \notin DOMAIN idemp_cache
          /\ (Retry(k, c) /\ pc[Caller] \notin {"sweep", "pop", "check"}) => invoked[Caller]

\* C10 witness: after a withdrawal under a key failed for insufficient
\* funds, a second call with the key is running the operation.
C10_Witness ==
  LET c == lastCall["k1"]
  IN  /\ Retry("k1", c) /\ ~c.ok
      /\ invoked[Caller]
      /\ pc[Caller] = "append"
      /\ "k1" \notin DOMAIN idemp_cache

\* C11: a direct deposit of a positive amount a into a known account with
\* balance b returns b + _money(a), leaves that as the account's balance and
\* appends exactly one record (deposit, _money(a), b + _money(a)) to the
\* account's log; no other balance and no other log changes.
C11_DepositResult ==
  (Returned("deposit") /\ acct[Caller] \in DOMAIN accounts /\ arg[Caller] > 0) =>
    LET a == acct[Caller]
        b == pre.accounts[a]
        x == _money(arg[Caller])
    IN  /\ err[Caller] = "none"
        /\ ret[Caller].balance = b + x
        /\ accounts = [pre.accounts EXCEPT ![a] = b + x]
        /\ Len(log[a]) = Len(pre.log[a]) + 1
        /\ SubSeq(log[a], 1, Len(pre.log[a])) = pre.log[a]
        /\ log[a][Len(log[a])].type = "deposit"
        /\ log[a][Len(log[a])].amount = x
        /\ log[a][Len(log[a])].balance = b + x
        /\ \A o \in DOMAIN log \ {a} : log[o] = pre.log[o]

\* C11 witness: deposit("1001", 0.005) after an earlier deposit has returned
\* 0.01 more than the balance it found, and the log's second record says so.
C11_Witness ==
  /\ Returned("deposit")
  /\ acct[Caller] = "1001"
  /\ arg[Caller] = 5
  /\ err[Caller] = "none"
  /\ pre.accounts["1001"] = seed["1001"] + 500000
  /\ ret[Caller].balance = seed["1001"] + 500000 + 10
  /\ Len(log["1001"]) = 2
  /\ log["1001"][2].amount = 10

\* C12: a direct withdraw(id, x) of a known account and a positive x, made
\* right after a successful deposit(id, x), succeeds and leaves the balance
\* the account had before the deposit.
C12_DepositThenWithdraw ==
  (/\ Returned("withdraw")
   /\ acct[Caller] \in DOMAIN accounts
   /\ arg[Caller] > 0
   /\ pre.prev = [op |-> "deposit", acct |-> acct[Caller], arg |-> arg[Caller],
                  err |-> "none"]) =>
    /\ err[Caller] = "none"
    /\ accounts[acct[Caller]] = pre.before[acct[Caller]]

\* C13: get_balance, deposit, withdraw and transactions, called with an
\* account number that has no account, raise the not-found error; no account
\* is created, and no balance and no log changes.
C13_NotFound ==
  (/\ pc[Caller] = "done"
   /\ op[Caller] \in {"get_balance", "deposit", "withdraw", "transactions"}
   /\ acct[Caller] \notin DOMAIN pre.accounts) =>
    /\ err[Caller] = "NotFound"
    /\ ret[Caller] = NoResult
    /\ DOMAIN accounts = DOMAIN pre.accounts
    /\ DOMAIN log = DOMAIN pre.log
    /\ accounts = pre.accounts
    /\ log = pre.log

\* C13 witness: after a deposit was made, a withdrawal from an account number
\* without an account has raised not-found, its lock released.
C13_Witness ==
  /\ Returned("withdraw")
  /\ acct[Caller] = "nope"
  /\ err[Caller] = "NotFound"
  /\ "nope" \in DOMAIN locks
  /\ held = {}
  /\ "nope" \notin DOMAIN accounts
  /\ Len(log["1001"]) = 1

\* The serial caller's call reached idempotent_response without a key.
NoToken ==
  /\ pc[Caller] # "idle"
  /\ api[Caller]
  /\ op[Caller] \in Mutating
  /\ err[Caller] # "Validation"
  /\ key[Caller] = ""

\* C14: in a serial run, a call without a key (absent or empty) always runs
\* the operation, never returns a cached entry and never stores one: each
\* such call that succeeds appends its own record, and no step of such a call
\* adds a key to the cache.
C14_NoTokenNoDedup ==
  /\ [](NoToken =>
          /\ pc[Caller] \notin {"hit", "store"}
          /\ pc[Caller] \notin {"sweep", "pop", "check"} => invoked[Caller]
          /\ (pc[Caller] = "done" /\ err[Caller] = "none") =>
                Len(log[acct[Caller]]) = Len(pre.log[acct[Caller]]) + 1)
  /\ [][NoToken' => DOMAIN idemp_cache' \subseteq DOMAIN idemp_cache]_vars

\* C14 witness: two deposits without a key, one after the other, have both
\* been applied, and the cache is empty.
C14_Witness ==
  /\ NoToken
  /\ calls = 2
  /\ pc[Caller] = "done"
  /\ pre.prev = [op |-> "deposit", acct |-> "1001", arg |-> 500000, err |-> "none"]
  /\ op[Caller] = "deposit" /\ acct[Caller] = "1001" /\ arg[Caller] = 500000
  /\ accounts["1001"] = seed["1001"] + 2 * 500000
  /\ Len(log["1001"]) = 2
  /\ DOMAIN idemp_cache = {}

\* s is an initial part of u.
IsPrefix(s, u) == Len(s) <= Len(u) /\ SubSeq(u, 1, Len(s)) = s

\* C15: every step leaves each account's log as it was or appends one record
\* at its end (so the log of an earlier state is a prefix of the log of every
\* later state), and a sequence that transactions() returned stays a prefix of
\* the account's log whatever is appended afterwards.
C15_AppendOnly ==
  /\ [][\A a \in DOMAIN log :
          /\ a \in DOMAIN log'
          /\ IsPrefix(log[a], log'[a])
          /\ Len(log'[a]) <= Len(log[a]) + 1]_vars
  /\ [](\A t \in Threads :
          (pc[t] = "done" /\ op[t] = "transactions" /\ err[t] = "none") =>
            IsPrefix(ret[t].transactions, log[acct[t]]))

\* C15 witness: a deposit's record was appended after a concurrent
\* transactions() had returned the log as it was before, and both calls have
\* ended: the returned sequence is still the empty one.
C15_Witness ==
  /\ pc[2] = "done" /\ op[2] = "transactions" /\ acct[2] = "1001"
  /\ ret[2].transactions = <<>>
  /\ pc[1] = "done" /\ op[1] = "deposit" /\ acct[1] = "1001"
  /\ Len(log["1001"]) = 1
  /\ log["1001"][1].balance = seed["1001"] + 500000

\* Thread u is inside deposit's or withdraw's with block, holding its lock.
InSection(u) == pc[u] \in {"enter", "load", "write", "append", "return"}

\* C16: while a deposit or withdraw holds the lock of its account, a call on
\* a different account is not held up by it: the lock that call waits for
\* is another one, every other step of the call can be taken, and a thread
\* at rest can read a different account.
C16_Independence ==
  \A t, u \in Threads :
    (t # u /\ InSection(u)) =>
      /\ (pc[t] = "acquire" /\ acct[t] # acct[u]) => lock[t] # lock[u]
      /\ (~AtRest(t) /\ pc[t] # "acquire" /\ acct[t] # acct[u]) => ENABLED Step(t)
      /\ AtRest(t) => \A i \in IdInputs \ {acct[u]} :
                        ENABLED GetBalance(t, i) /\ ENABLED Transactions(t, i)

\* C16 witness: while a withdrawal from 1001 stands between its balance
\* test and its write, a deposit into 9999 reaches its lock and finds it free.
C16_Witness ==
  /\ pc[2] = "load" /\ op[2] = "withdraw" /\ acct[2] = "1001"
  /\ pc[1] = "acquire" /\ op[1] = "deposit" /\ acct[1] = "9999"
  /\ held = {lock[2]}
  /\ lock[1] # lock[2]
  /\ ENABLED Acquire(1)

\* C17: a caller that found its key in the cache obtains the cached result,
\* whatever the sweeps of the other callers do meanwhile: a call that ended
\* without running the operation ended with the cached result, not with an
\* error.
C17_SweepSafety ==
  \A t \in Threads :
    (/\ pc[t] = "done" /\ api[t] /\ op[t] \in Mutating
     /\ err[t] # "Validation" /\ ~invoked[t]) =>
      (err[t] = "none" /\ ret[t] # NoResult)

\* C18: under fair scheduling every call that was started ends (with a
\* result or an error); a thread whose call has ended holds no lock, so every
\* locked lock belongs to a call inside its with block; and while a call is
\* under way, some call can take a step.
C18_RunToCompletion ==
  /\ \A t \in Threads : ~AtRest(t) ~> AtRest(t)
  /\ [](\A t \in Threads : AtRest(t) => lock[t] = NoLock)
  /\ [](\A l \in held : \E u \in Threads : InSection(u) /\ lock[u] = l)
  /\ []((\E t \in Threads : ~AtRest(t)) => \E t \in Threads : ENABLED Step(t))

\* C18 witness: a withdrawal has failed for insufficient funds and released
\* the lock of its account, which a second call on the account now holds.
C18_Witness ==
  /\ pc[1] = "done" /\ err[1] = "InsufficientFunds" /\ lock[1] = NoLock
  /\ pc[2] = "enter" /\ acct[2] = acct[1]
  /\ lock[2] = locks[acct[1]]
  /\ held = {lock[2]}

\* C19: the endpoints pass strictly positive amounts only, of any precision;
\* every record that deposit or withdraw appends for them has a strictly
\* positive amount.
C19_PositiveRecordAmounts ==
  \A a \in DOMAIN log : \A n \in 1..Len(log[a]) : log[a][n].amount > 0

\* The serial caller's call stands at the lookup, and the cache holds an
\* entry under its key that is not expired at the call's time.
Cached ==
  /\ pc[Caller] = "check"
  /\ key[Caller] # ""
  /\ key[Caller] \in DOMAIN idemp_cache
  /\ ~Expired(now[Caller], idemp_cache[key[Caller]].t)

\* The serial caller's call has ended without having run the operation.
ServedFromCache ==
  /\ pc[Caller] = "done" /\ api[Caller] /\ op[Caller] \in Mutating
  /\ err[Caller] # "Validation" /\ ~invoked[Caller]

\* C20: in a serial run, a call that finds an unexpired entry under its key
\* goes on to return that entry's payload, without running its operation,
\* and every balance and log stays as it was when the call began, whatever
\* account, kind and amount the call names.
C20_TokenOnlyKey ==
  /\ [][(Cached /\ pc'[Caller] # "check") =>
          (pc'[Caller] = "hit" /\ ~invoked'[Caller])]_vars
  /\ [][(pc[Caller] = "hit" /\ pc'[Caller] # "hit") =>
          /\ key[Caller] \in DOMAIN idemp_cache
          /\ pc'[Caller] = "done"
          /\ err'[Caller] = "none"
          /\ ret'[Caller] = idemp_cache[key[Caller]].response]_vars
  /\ []((Cached \/ pc[Caller] = "hit" \/ ServedFromCache) =>
          (accounts = pre.accounts /\ log = pre.log))

\* C20 witness: a withdrawal of 0.004 from 9999 under the key of an earlier
\* deposit into 1001 has returned the deposit's payload; 9999 is untouched.
C20_Witness ==
  /\ ServedFromCache
  /\ key[Caller] = "k1" /\ op[Caller] = "withdraw"
  /\ acct[Caller] = "9999" /\ arg[Caller] = 4
  /\ err[Caller] = "none"
  /\ ret[Caller] = idemp_cache["k1"].response
  /\ ret[Caller].account_number = "1001"
  /\ ret[Caller].balance = seed["1001"] + 500000
  /\ accounts["9999"] = seed["9999"] /\ log["9999"] = <<>>
  /\ Len(log["1001"]) = 1

====
